---- MODULE Spec2Model ----
(***************************************************************************)
(* Expense tracker backend (src/backend/server.js): the in-memory expense  *)
(* store, the category registry and the summary aggregation, one action    *)
(* per route handler.                                                      *)
(*                                                                         *)
(* JavaScript values are records [k, s, n]: k is the type tag, s the       *)
(* characters of a string (a sequence of one-character strings), n the     *)
(* value of a number.  Amounts are integers, where double addition is      *)
(* exact; NaN is its own tag.                                              *)
(***************************************************************************)
EXTENDS Integers, Sequences, FiniteSets

VARIABLES expenses, categories, uuidState, req, res, created, deleted, workload,
          App, ExpenseSummary, CategoryFilter, calls

\* The state of the frontend: the state of the App component, of its
\* ExpenseSummary and its CategoryFilter, and the async calls in flight.
frontend == <<App, ExpenseSummary, CategoryFilter, calls>>

\* The state of the server and of its last exchange.
backend == <<expenses, categories, uuidState, req, res, created, deleted, workload>>

vars == <<expenses, categories, uuidState, req, res, created, deleted, workload,
          App, ExpenseSummary, CategoryFilter, calls>>

(***************************************************************************)
(* Bounds of the model.                                                    *)
(***************************************************************************)
MaxExpenses == 2
MaxIds == 3

(***************************************************************************)
(* JavaScript values.                                                      *)
(***************************************************************************)
Undefined == [k |-> "undefined", s |-> <<>>, n |-> 0]
Null == [k |-> "null", s |-> <<>>, n |-> 0]
NaN == [k |-> "NaN", s |-> <<>>, n |-> 0]
Obj == [k |-> "object", s |-> <<>>, n |-> 0]
False == [k |-> "boolean", s |-> <<>>, n |-> 0]
True == [k |-> "boolean", s |-> <<>>, n |-> 1]
Str(s) == [k |-> "string", s |-> s, n |-> 0]
Num(n) == [k |-> "number", s |-> <<>>, n |-> n]

\* ToBoolean: the test behind !x, x || y and x && y.
Truthy(v) ==
  CASE v.k = "string" -> v.s # <<>>
    [] v.k = "number" -> v.n # 0
    [] v.k = "boolean" -> v.n = 1
    [] v.k = "object" -> TRUE
    [] OTHER -> FALSE

\* x || y
Or(x, y) == IF Truthy(x) THEN x ELSE y

IsString(v) == v.k = "string"

UpperChars == <<"A","B","C","D","E","F","G","H","I","J","K","L","M",
                "N","O","P","Q","R","S","T","U","V","W","X","Y","Z">>
LowerChars == <<"a","b","c","d","e","f","g","h","i","j","k","l","m",
                "n","o","p","q","r","s","t","u","v","w","x","y","z">>

LowerChar(c) ==
  IF \E i \in 1..26 : UpperChars[i] = c
  THEN LowerChars[CHOOSE i \in 1..26 : UpperChars[i] = c]
  ELSE c

\* String.prototype.toLowerCase on the characters of a string.
toLowerCase(s) == [i \in 1..Len(s) |-> LowerChar(s[i])]

WhiteSpace == {" ", "\t", "\n"}

RECURSIVE trimStart(_)
trimStart(s) ==
  IF s # <<>> /\ Head(s) \in WhiteSpace THEN trimStart(Tail(s)) ELSE s

RECURSIVE trimEnd(_)
trimEnd(s) ==
  IF s # <<>> /\ s[Len(s)] \in WhiteSpace
  THEN trimEnd(SubSeq(s, 1, Len(s) - 1))
  ELSE s

\* String.prototype.trim
trimNone(s) == s

trim(s) == trimEnd(trimStart(s))

Digits == <<"0","1","2","3","4","5","6","7","8","9">>
IsDigit(c) == \E i \in 1..10 : Digits[i] = c
DigitValue(c) == (CHOOSE i \in 1..10 : Digits[i] = c) - 1

\* The longest prefix of s made of digits.
RECURSIVE digitPrefix(_)
digitPrefix(s) ==
  IF s # <<>> /\ IsDigit(Head(s)) THEN <<Head(s)>> \o digitPrefix(Tail(s)) ELSE <<>>

RECURSIVE digitsValue(_)
digitsValue(d) ==
  IF d = <<>> THEN 0 ELSE 10 * digitsValue(SubSeq(d, 1, Len(d) - 1)) + DigitValue(d[Len(d)])

\* parseFloat on a string without fraction or exponent: leading white space
\* is skipped, an optional sign is read, then the longest run of digits; no
\* digit gives NaN and whatever follows the digits is ignored.
parseFloatString(s) ==
  LET t == trimStart(s)
      neg == t # <<>> /\ Head(t) = "-"
      u == IF t # <<>> /\ Head(t) \in {"-", "+"} THEN Tail(t) ELSE t
      d == digitPrefix(u)
  IN IF d = <<>> THEN NaN
     ELSE Num(IF neg THEN 0 - digitsValue(d) ELSE digitsValue(d))

\* parseFloat(v): the argument is converted to a string first, so a number
\* comes back as itself and undefined, null and objects give NaN.
parseFloat(v) ==
  CASE v.k = "number" -> v
    [] v.k = "string" -> parseFloatString(v.s)
    [] OTHER -> NaN

\* a + b on two numbers.
Plus(a, b) == IF a.k = "NaN" \/ b.k = "NaN" THEN NaN ELSE Num(a.n + b.n)

(***************************************************************************)
(* Strings used by the requests.                                           *)
(***************************************************************************)
Food == <<"F","o","o","d">>
Transport == <<"T","r","a","n","s","p","o","r","t">>
Entertainment == <<"E","n","t","e","r","t","a","i","n","m","e","n","t">>
Utilities == <<"U","t","i","l","i","t","i","e","s">>
Healthcare == <<"H","e","a","l","t","h","c","a","r","e">>
Shopping == <<"S","h","o","p","p","i","n","g">>
All == <<"A","l","l">>
Proto == <<"_","_","p","r","o","t","o","_","_">>

\* let categories = [...]
SeedCategories == <<Food, Transport, Entertainment, Utilities, Healthcare, Shopping>>

\* Mutant of uuidv4: the id is derived from the number of stored expenses.
uuidv4FromLength(state) == Len(expenses) + 1

\* uuidv4(): a value no earlier call returned (the library's contract); the
\* generator's state is the number of values handed out.
uuidv4(state) == state + 1

\* Mutant of findIndex: a miss gives the last position of a non-empty array.
findIndexOrLast(exps, id) ==
  IF \E i \in 1..Len(exps) : exps[i].id = id
  THEN CHOOSE i \in 1..Len(exps) :
         exps[i].id = id /\ \A j \in 1..(i - 1) : exps[j].id # id
  ELSE IF exps = <<>> THEN -1 ELSE Len(exps)

\* expenses.findIndex((e) => e.id === id), positions counted from 1.
findIndex(exps, id) ==
  IF \E i \in 1..Len(exps) : exps[i].id = id
  THEN CHOOSE i \in 1..Len(exps) :
         exps[i].id = id /\ \A j \in 1..(i - 1) : exps[j].id # id
  ELSE -1

\* Mutant of splice: the last element is removed, whatever the index.
splicePop(exps, index) == SubSeq(exps, 1, Len(exps) - 1)

\* expenses.splice(index, 1): the array without the element at index.
splice(exps, index) ==
  SubSeq(exps, 1, index - 1) \o SubSeq(exps, index + 1, Len(exps))

(***************************************************************************)
(* Plain objects used as maps (the accumulator of the summary).  An object *)
(* is the sequence of its own properties [key, value] in enumeration       *)
(* order: integer keys ascending, then the other keys in insertion order.  *)
(***************************************************************************)
RECURSIVE natToString(_)
natToString(n) ==
  IF n < 10 THEN <<Digits[n + 1]>> ELSE natToString(n \div 10) \o <<Digits[(n % 10) + 1]>>

ObjectString == <<"[","o","b","j","e","c","t"," ","O","b","j","e","c","t","]">>

\* ToString(v)
toString(v) ==
  CASE v.k = "string" -> v.s
    [] v.k = "number" -> IF v.n < 0 THEN <<"-">> \o natToString(0 - v.n) ELSE natToString(v.n)
    [] v.k = "NaN" -> <<"N","a","N">>
    [] v.k = "null" -> <<"n","u","l","l">>
    [] v.k = "undefined" -> <<"u","n","d","e","f","i","n","e","d">>
    [] v.k = "boolean" -> IF v.n = 1 THEN <<"t","r","u","e">> ELSE <<"f","a","l","s","e">>
    [] OTHER -> ObjectString

\* A canonical array index: digits only, no leading zero.
IsIntegerKey(key) ==
  /\ key # <<>>
  /\ \A i \in 1..Len(key) : IsDigit(key[i])
  /\ (Len(key) > 1 => key[1] # "0")

HasOwn(obj, key) == \E i \in 1..Len(obj) : obj[i].key = key

\* obj[key]: the own property, else what Object.prototype gives.  Of the
\* inherited names only __proto__ occurs among the categories used.
Get(obj, key) ==
  IF HasOwn(obj, key) THEN obj[CHOOSE i \in 1..Len(obj) : obj[i].key = key].value
  ELSE IF key = Proto THEN Obj
  ELSE Undefined

\* Number of own properties that are enumerated before a new property key.
InsertPos(obj, key) ==
  IF IsIntegerKey(key)
  THEN Cardinality({i \in 1..Len(obj) :
         IsIntegerKey(obj[i].key) /\ digitsValue(obj[i].key) < digitsValue(key)})
  ELSE Len(obj)

\* obj[key] = value.  Assigning a primitive to __proto__ is ignored.
Set(obj, key, value) ==
  IF HasOwn(obj, key)
  THEN [i \in 1..Len(obj) |->
          IF obj[i].key = key THEN [key |-> key, value |-> value] ELSE obj[i]]
  ELSE IF key = Proto THEN obj
  ELSE LET p == InsertPos(obj, key)
       IN SubSeq(obj, 1, p) \o <<[key |-> key, value |-> value]>>
            \o SubSeq(obj, p + 1, Len(obj))

IsNumber(v) == v.k \in {"number", "NaN"}

\* x + y: numeric addition of two numbers, else concatenation of strings.
Add(x, y) ==
  IF IsNumber(x) /\ IsNumber(y) THEN Plus(x, y)
  ELSE Str(toString(x) \o toString(y))

\* JSON.stringify of a number: NaN is written as null.
json(v) == IF v.k = "NaN" THEN Null ELSE v

(***************************************************************************)
(* GET /api/expenses                                                       *)
(***************************************************************************)
RECURSIVE filterByCategory(_, _)
filterByCategory(exps, category) ==
  IF exps = <<>> THEN <<>>
  ELSE LET rest == filterByCategory(Tail(exps), category)
       IN IF toLowerCase(Head(exps).category.s) = toLowerCase(category.s)
          THEN <<Head(exps)>> \o rest
          ELSE rest

\* expense.category.toLowerCase() or category.toLowerCase() is a TypeError
\* when the value is no string; the callback runs once per expense.
filterThrows(exps, category) ==
  /\ exps # <<>>
  /\ (~IsString(category) \/ \E i \in 1..Len(exps) : ~IsString(exps[i].category))

InternalError == [status |-> 500, body |-> [success |-> FALSE, error |-> "TypeError"]]

ListExpenses(exps, category) ==
  IF Truthy(category) /\ category # Str(All)
  THEN IF filterThrows(exps, category) THEN InternalError
       ELSE LET filteredExpenses == filterByCategory(exps, category)
            IN [status |-> 200,
                body |-> [success |-> TRUE, data |-> filteredExpenses,
                          count |-> Len(filteredExpenses)]]
  ELSE [status |-> 200,
        body |-> [success |-> TRUE, data |-> exps, count |-> Len(exps)]]

(***************************************************************************)
(* GET /api/expenses/summary                                               *)
(***************************************************************************)
\* acc[expense.category] = (acc[expense.category] || 0) + expense.amount
summaryStep(acc, expense) ==
  LET key == toString(expense.category)
  IN Set(acc, key, Add(Or(Get(acc, key), Num(0)), expense.amount))

RECURSIVE summaryReduce(_, _)
summaryReduce(acc, exps) ==
  IF exps = <<>> THEN acc ELSE summaryReduce(summaryStep(acc, Head(exps)), Tail(exps))

RECURSIVE grandTotalReduce(_, _)
grandTotalReduce(sum, exps) ==
  IF exps = <<>> THEN sum ELSE grandTotalReduce(Plus(sum, Head(exps).amount), Tail(exps))

Summarize(exps) ==
  LET summary == summaryReduce(<<>>, exps)
      summaryArray == [i \in 1..Len(summary) |->
                         [category |-> summary[i].key, total |-> json(summary[i].value)]]
      grandTotal == grandTotalReduce(Num(0), exps)
  IN [status |-> 200,
      body |-> [success |-> TRUE, data |-> summaryArray, grandTotal |-> json(grandTotal)]]

(***************************************************************************)
(* Request inputs.  A behaviour serves one workload, fixed at the start:   *)
(* the workloads differ in the values the clients send, so that each part  *)
(* of the server is exercised with a rich vocabulary while the others are  *)
(* kept small.                                                             *)
(*   "aggregation": expenses of many categories and amounts, all filters   *)
(*   "fields":      every combination of supplied and missing fields       *)
(*   "registry":    category names, amounts that are no positive number    *)
(***************************************************************************)
Rent == <<"R","e","n","t">>
D1 == <<"2","0","2","4","-","0","1","-","0","1">>
D2 == <<"2","0","2","4","-","0","1","-","0","2">>
Lunch == <<"l","u","n","c","h">>

Workloads == {"aggregation", "fields", "registry"}

\* req.body: the four fields the handlers read, and an id a client may send
\* along (the handlers do not read it).
Body(amount, category, date, description) ==
  [id |-> Undefined, amount |-> amount, category |-> category, date |-> date,
   description |-> description]

BodyWithId(id, amount, category, date, description) ==
  [id |-> id, amount |-> amount, category |-> category, date |-> date,
   description |-> description]

CreateBodies(w) ==
  CASE w = "aggregation" ->
         [id : {Undefined},
          amount : {Num(5), Str(<<"-","3","x">>)},
          category : {Str(Food), Str(toLowerCase(Food)), Str(Proto), Str(<<"5">>), Num(5)},
          date : {Str(D1)},
          description : {Undefined}]
    [] w = "fields" ->
         [id : {Undefined},
          amount : {Undefined, Null, Num(0), Num(5)},
          category : {Undefined, Str(<<>>), Str(Food)},
          date : {Undefined, Str(<<>>), Str(D1)},
          description : {Undefined, Str(Lunch)}]
    [] OTHER ->
         {Body(Num(5), Str(Rent), Str(D1), Undefined),
          Body(Str(<<"x">>), Str(Rent), Str(D1), Undefined),
          Body(Num(5), Undefined, Str(D1), Undefined)}

UpdateBodies(w) ==
  CASE w = "aggregation" ->
         {Body(Undefined, Undefined, Undefined, Undefined),
          Body(Undefined, Str(Food), Undefined, Undefined),
          Body(Undefined, Str(Proto), Undefined, Undefined),
          BodyWithId(Num(MaxIds), Undefined, Str(Food), Undefined, Undefined)}
    [] w = "fields" ->
         [id : {Undefined},
          amount : {Undefined, Str(<<"7","x">>)},
          category : {Undefined, Str(<<>>), Str(Transport)},
          date : {Undefined, Str(<<>>), Str(D2)},
          description : {Undefined, Str(<<>>)}]
    [] OTHER ->
         {Body(Num(0), Undefined, Undefined, Undefined),
          Body(Null, Undefined, Undefined, Undefined)}

QueryInputs(w) ==
  IF w = "aggregation"
  THEN {Undefined, Str(<<>>), Str(All), Str(toLowerCase(All)), Str(Food),
        Str(toLowerCase(Food)), Str(Proto), Str(<<"5">>), Obj}
  ELSE {Undefined, Str(Food)}

NameInputs(w) ==
  IF w = "registry"
  THEN {Undefined, Null, Str(<<>>), Str(<<" ", "\t">>), Str(toLowerCase(Food)),
        Str(<<" ">> \o Rent \o <<" ">>), Str(toLowerCase(Rent)), Num(5)}
  ELSE {Str(Food)}

\* The "fields" workload is about the fields of one record: it keeps a
\* single expense in the store; so does the "app" workload, where the store
\* is driven by the frontend and its calls in flight.
StoreLimit(w) == IF w \in {"fields", "app"} THEN 1 ELSE MaxExpenses

IdInputs == 1..MaxIds

(***************************************************************************)
(* GET /api/expenses, GET /api/expenses/summary, GET /api/categories       *)
(***************************************************************************)
GetExpenses(category) ==
  /\ req' = [op |-> "GET /api/expenses", query |-> [category |-> category]]
  /\ res' = ListExpenses(expenses, category)
  /\ UNCHANGED <<expenses, categories, uuidState, created, deleted, workload>>

GetSummary ==
  /\ req' = [op |-> "GET /api/expenses/summary"]
  /\ res' = Summarize(expenses)
  /\ UNCHANGED <<expenses, categories, uuidState, created, deleted, workload>>

GetCategories ==
  /\ req' = [op |-> "GET /api/categories"]
  /\ res' = [status |-> 200, body |-> [success |-> TRUE, data |-> categories]]
  /\ UNCHANGED <<expenses, categories, uuidState, created, deleted, workload>>

(***************************************************************************)
(* POST /api/expenses                                                      *)
(***************************************************************************)
\* Mutant of createRejected: the date is not looked at.
createRejectedNoDate(body) ==
  ~Truthy(body.amount) \/ ~Truthy(body.category)

\* if (!amount || !category || !date)
createRejected(body) ==
  ~Truthy(body.amount) \/ ~Truthy(body.category) \/ ~Truthy(body.date)

newExpenseOfNoDefault(id, body) ==
  [id |-> id,
   amount |-> parseFloat(body.amount),
   category |-> body.category,
   date |-> body.date,
   description |-> body.description]

newExpenseOf(id, body) ==
  [id |-> id,
   amount |-> parseFloat(body.amount),
   category |-> body.category,
   date |-> body.date,
   description |-> Or(body.description, Str(<<>>))]

\* res.status(400).json({ success: false, error: ... })
BadRequest(error) == [status |-> 400, body |-> [success |-> FALSE, error |-> error]]

ExpenseFieldsRequired == BadRequest("Amount, category, and date are required")

PostExpense(body) ==
  /\ req' = [op |-> "POST /api/expenses", body |-> body]
  /\ IF createRejected(body)
     THEN /\ res' = ExpenseFieldsRequired
          /\ UNCHANGED <<expenses, categories, uuidState, created, deleted, workload>>
     ELSE /\ Len(expenses) < StoreLimit(workload)
          /\ uuidState < MaxIds
          /\ LET newExpense == newExpenseOf(uuidv4(uuidState), body)
             IN /\ expenses' = Append(expenses, newExpense)
                /\ res' = [status |-> 201,
                           body |-> [success |-> TRUE, data |-> newExpense,
                                     message |-> "Expense added successfully"]]
                /\ created' = Append(created, newExpense.id)
          /\ uuidState' = uuidState + 1
          /\ UNCHANGED <<categories, deleted, workload>>

(***************************************************************************)
(* PUT /api/expenses/:id                                                   *)
(***************************************************************************)
\* Mutant of updatedExpense: the description is merged with || like the
\* category and the date.
updatedExpenseSupplied(old, body) ==
  [id |-> old.id,
   amount |-> IF body.amount # Undefined THEN parseFloat(body.amount) ELSE old.amount,
   category |-> IF body.category # Undefined THEN body.category ELSE old.category,
   date |-> IF body.date # Undefined THEN body.date ELSE old.date,
   description |-> IF body.description # Undefined THEN body.description
                   ELSE old.description]

updatedExpenseIdFromBody(old, body) ==
  [id |-> IF body.id.k = "number" THEN body.id.n ELSE old.id,
   amount |-> IF body.amount # Undefined THEN parseFloat(body.amount) ELSE old.amount,
   category |-> Or(body.category, old.category),
   date |-> Or(body.date, old.date),
   description |-> IF body.description # Undefined THEN body.description
                   ELSE old.description]

updatedExpenseOrDescription(old, body) ==
  [id |-> old.id,
   amount |-> IF body.amount # Undefined THEN parseFloat(body.amount) ELSE old.amount,
   category |-> Or(body.category, old.category),
   date |-> Or(body.date, old.date),
   description |-> Or(body.description, old.description)]

\* expenses[index] = { ...expenses[index], amount: ..., category: ..., ... }
updatedExpense(old, body) ==
  [id |-> old.id,
   amount |-> IF body.amount # Undefined THEN parseFloat(body.amount) ELSE old.amount,
   category |-> Or(body.category, old.category),
   date |-> Or(body.date, old.date),
   description |-> IF body.description # Undefined THEN body.description
                   ELSE old.description]

NotFound ==
  [status |-> 404, body |-> [success |-> FALSE, error |-> "Expense not found"]]

PutExpense(id, body) ==
  /\ req' = [op |-> "PUT /api/expenses/:id", params |-> [id |-> id], body |-> body]
  /\ LET index == findIndex(expenses, id)
     IN IF index = -1
        THEN /\ res' = NotFound
             /\ UNCHANGED expenses
        ELSE /\ expenses' = [expenses EXCEPT ![index] = updatedExpense(@, body)]
             /\ res' = [status |-> 200,
                        body |-> [success |-> TRUE, data |-> expenses'[index],
                                  message |-> "Expense updated successfully"]]
  /\ UNCHANGED <<categories, uuidState, created, deleted, workload>>

(***************************************************************************)
(* DELETE /api/expenses/:id                                                *)
(***************************************************************************)
DeleteExpense(id) ==
  /\ req' = [op |-> "DELETE /api/expenses/:id", params |-> [id |-> id]]
  /\ LET index == findIndex(expenses, id)
     IN IF index = -1
        THEN /\ res' = NotFound
             /\ UNCHANGED <<expenses, deleted>>
        ELSE /\ expenses' = splice(expenses, index)
             /\ res' = [status |-> 200,
                        body |-> [success |-> TRUE, data |-> expenses[index],
                                  message |-> "Expense deleted successfully"]]
             /\ deleted' = deleted \cup {id}
  /\ UNCHANGED <<categories, uuidState, created, workload>>

(***************************************************************************)
(* POST /api/categories                                                    *)
(***************************************************************************)
\* Mutant of categoryExists: the names are compared as written.
categoryExistsExact(cats, categoryName) ==
  \E i \in 1..Len(cats) : cats[i] = categoryName

\* categories.some((c) => c.toLowerCase() === categoryName.toLowerCase())
categoryExists(cats, categoryName) ==
  \E i \in 1..Len(cats) : toLowerCase(cats[i]) = toLowerCase(categoryName)

unshift(cats, categoryName) == <<categoryName>> \o cats

\* categories.push(categoryName)
push(cats, categoryName) == Append(cats, categoryName)

CategoryNameRequired == BadRequest("Category name is required")

\* The answer to a name that is in the registry already.
CategoryConflict == BadRequest("Category already exists")

PostCategory(name) ==
  /\ req' = [op |-> "POST /api/categories", body |-> [name |-> name]]
  /\ IF ~Truthy(name)
     THEN /\ res' = CategoryNameRequired
          /\ UNCHANGED categories
     ELSE IF ~IsString(name)
     THEN /\ res' = InternalError
          /\ UNCHANGED categories
     ELSE IF trim(name.s) = <<>>
     THEN /\ res' = CategoryNameRequired
          /\ UNCHANGED categories
     ELSE LET categoryName == trim(name.s)
          IN IF categoryExists(categories, categoryName)
             THEN /\ res' = CategoryConflict
                  /\ UNCHANGED categories
             ELSE /\ categories' = push(categories, categoryName)
                  /\ res' = [status |-> 201,
                             body |-> [success |-> TRUE, data |-> categoryName,
                                       message |-> "Category created successfully"]]
  /\ UNCHANGED <<expenses, uuidState, created, deleted, workload>>

\* The server after start.
ServerStart ==
  /\ expenses = <<>>
  /\ categories = SeedCategories
  /\ uuidState = 0
  /\ req = [op |-> "none"]
  /\ res = [status |-> 0]
  /\ created = <<>>
  /\ deleted = {}

\* The App after its first render and the effects of the mount: loadExpenses
\* has set isLoading and its request is out, as are the requests of
\* loadSummary and of the CategoryFilter's loadCategories.
Mounted ==
  /\ App = [expenses |-> <<>>, summary |-> <<>>, grandTotal |-> Num(0),
            selectedCategory |-> All, isLoading |-> TRUE,
            editingExpense |-> Null, error |-> Null]
  /\ ExpenseSummary = [displayData |-> <<>>]
  /\ CategoryFilter = [categories |-> <<>>, categoriesLoading |-> TRUE]
  /\ calls = {[fn |-> "loadExpenses", selectedCategory |-> All],
              [fn |-> "loadSummary"], [fn |-> "loadCategories"]}

\* The server driven by requests of any client.
Init ==
  /\ ServerStart
  /\ workload \in Workloads
  /\ Mounted

Next ==
  \/ (\E category \in QueryInputs(workload) : GetExpenses(category)) /\ UNCHANGED frontend
  \/ GetSummary /\ UNCHANGED frontend
  \/ GetCategories /\ UNCHANGED frontend
  \/ (\E body \in CreateBodies(workload) : PostExpense(body)) /\ UNCHANGED frontend
  \/ (\E id \in IdInputs, body \in UpdateBodies(workload) : PutExpense(id, body))
       /\ UNCHANGED frontend
  \/ (\E id \in IdInputs : DeleteExpense(id)) /\ UNCHANGED frontend
  \/ (\E name \in NameInputs(workload) : PostCategory(name)) /\ UNCHANGED frontend

Spec == Init /\ [][Next]_vars

(***************************************************************************)
(* The frontend: App.js with its ExpenseSummary, CategoryFilter,           *)
(* ExpenseForm and ExpenseList, talking to the server through              *)
(* ExpenseService.  An async function is a call in `calls`; each of its    *)
(* awaits is one step, taken when the server has answered the request: the *)
(* step is the server's handler followed by the code up to the next await. *)
(* An effect runs in the step that changes what it depends on.             *)
(***************************************************************************)
MaxHandlers == 2

\* fetchExpenses(category): the query the URL carries.
fetchExpensesQuery(category) ==
  IF Truthy(category) /\ category # Str(All) THEN category ELSE Undefined

\* axios rejects on a status outside 2xx.
Rejected(response) == response.status < 200 \/ response.status >= 300

\* UTF-16 code units, in ascending order, of the characters used.
CodeUnits ==
  <<"\t", "\n", " ", "-", "0", "1", "2", "3", "4", "5", "6", "7", "8", "9",
    "A", "B", "C", "D", "E", "F", "G", "H", "I", "J", "K", "L", "M", "N", "O",
    "P", "Q", "R", "S", "T", "U", "V", "W", "X", "Y", "Z", "_",
    "a", "b", "c", "d", "e", "f", "g", "h", "i", "j", "k", "l", "m", "n", "o",
    "p", "q", "r", "s", "t", "u", "v", "w", "x", "y", "z">>

CodeUnit(c) == CHOOSE i \in 1..Len(CodeUnits) : CodeUnits[i] = c

\* The default comparison of Array.prototype.sort: a before b.
RECURSIVE StringLess(_, _)
StringLess(a, b) ==
  IF b = <<>> THEN FALSE
  ELSE IF a = <<>> THEN TRUE
  ELSE IF Head(a) # Head(b) THEN CodeUnit(Head(a)) < CodeUnit(Head(b))
  ELSE StringLess(Tail(a), Tail(b))

\* [...new Set(strings)].sort()
RECURSIVE sort(_)
sort(strings) ==
  IF strings = {} THEN <<>>
  ELSE LET first == CHOOSE s \in strings : \A u \in strings \ {s} : StringLess(s, u)
       IN <<first>> \o sort(strings \ {first})

\* data.map(expense => expense.category), unique and sorted
uniqueCategories(data) == sort({toString(data[i].category) : i \in 1..Len(data)})

\* ExpenseSummary's effect on [summary]
prepareDisplayData(summary, displayData) ==
  IF Len(summary) > 0
  THEN [i \in 1..Len(summary) |->
          [category |-> summary[i].category, total |-> parseFloat(summary[i].total)]]
  ELSE displayData

\* What the ExpenseForm submits: the form passes validateForm.
FormInputs ==
  [amount : {Num(5)}, category : {Str(Food)}, date : {Str(D1)},
   description : {Str(<<>>)}]

\* onSubmit({...formData, amount: parseFloat(formData.amount)}); formData is
\* initialData, id included, when an expense is being edited.
expenseDataOf(form, editingExpense) ==
  BodyWithId(IF editingExpense = Null THEN Undefined ELSE Num(editingExpense.id),
             parseFloat(form.amount), form.category, form.date, form.description)

Handlers == {call \in calls : call.fn \in {"handleSubmit", "handleDelete"}}

\* loadExpenses, after fetchExpenses has settled
loadedExpenses(app, response) ==
  IF Rejected(response)
  THEN [app EXCEPT !.error = Str(<<"Failed to load expenses. Please try again.">>),
                   !.isLoading = FALSE]
  ELSE [app EXCEPT !.expenses = response.body.data, !.isLoading = FALSE]

\* loadSummary, after fetchExpenseSummary has settled
loadedSummary(app, response) ==
  IF Rejected(response) THEN app
  ELSE [app EXCEPT !.summary = response.body.data,
                   !.grandTotal = Or(response.body.grandTotal, Num(0))]

\* loadExpenses() started by the effect of App
LoadExpenses(call) ==
  /\ call.fn = "loadExpenses"
  /\ GetExpenses(fetchExpensesQuery(Str(call.selectedCategory)))
  /\ App' = loadedExpenses(App, res')
  /\ calls' = calls \ {call}
  /\ UNCHANGED <<ExpenseSummary, CategoryFilter>>

\* loadSummary() started by the effect of App
LoadSummary(call) ==
  /\ call.fn = "loadSummary"
  /\ GetSummary
  /\ App' = loadedSummary(App, res')
  /\ ExpenseSummary' =
       IF App'.summary = App.summary /\ Rejected(res') THEN ExpenseSummary
       ELSE [displayData |-> prepareDisplayData(App'.summary, ExpenseSummary.displayData)]
  /\ calls' = calls \ {call}
  /\ UNCHANGED CategoryFilter

\* loadCategories() of the CategoryFilter, started when it mounts
LoadCategories(call) ==
  /\ call.fn = "loadCategories"
  /\ GetExpenses(fetchExpensesQuery(Null))
  /\ CategoryFilter' =
       [categories |-> IF Rejected(res') THEN <<>> ELSE uniqueCategories(res'.body.data),
        categoriesLoading |-> FALSE]
  /\ calls' = calls \ {call}
  /\ UNCHANGED <<App, ExpenseSummary>>

\* handleSubmit(expenseData) up to its first await: the form's submit button
\* is disabled while isLoading.
HandleSubmit(form) ==
  /\ ~App.isLoading
  /\ Cardinality(Handlers) < MaxHandlers
  /\ App' = [App EXCEPT !.isLoading = TRUE, !.error = Null]
  /\ calls' = calls \cup
       {[fn |-> "handleSubmit", pc |-> "mutation",
         editingExpense |-> App.editingExpense,
         expenseData |-> expenseDataOf(form, App.editingExpense),
         selectedCategory |-> App.selectedCategory]}
  /\ UNCHANGED <<ExpenseSummary, CategoryFilter>>
  /\ UNCHANGED backend

\* handleSubmit after updateExpense / createExpense has settled; it goes on
\* into loadExpenses (setIsLoading(true)) or into its catch and finally.
SubmitSettled(call) ==
  /\ call.fn = "handleSubmit" /\ call.pc = "mutation"
  /\ IF call.editingExpense # Null
     THEN PutExpense(call.editingExpense.id, call.expenseData)
     ELSE PostExpense(call.expenseData)
  /\ IF Rejected(res')
     THEN /\ App' = [App EXCEPT
                       !.error = IF call.editingExpense # Null
                                 THEN Str(<<"Failed to update expense">>)
                                 ELSE Str(<<"Failed to add expense">>),
                       !.isLoading = FALSE]
          /\ calls' = calls \ {call}
     ELSE /\ App' = [App EXCEPT
                       !.editingExpense = IF call.editingExpense # Null THEN Null ELSE @,
                       !.isLoading = TRUE, !.error = Null]
          /\ calls' = (calls \ {call}) \cup {[call EXCEPT !.pc = "loadExpenses"]}
  /\ UNCHANGED <<ExpenseSummary, CategoryFilter>>

\* handleDelete(id) up to its first await: the Delete button of a row of the
\* list, which is rendered while isLoading is false.
HandleDelete(id) ==
  /\ ~App.isLoading
  /\ \E i \in 1..Len(App.expenses) : App.expenses[i].id = id
  /\ Cardinality(Handlers) < MaxHandlers
  /\ App' = [App EXCEPT !.isLoading = TRUE, !.error = Null]
  /\ calls' = calls \cup
       {[fn |-> "handleDelete", pc |-> "mutation", id |-> id,
         selectedCategory |-> App.selectedCategory]}
  /\ UNCHANGED <<ExpenseSummary, CategoryFilter>>
  /\ UNCHANGED backend

\* handleDelete after deleteExpense has settled
DeleteSettled(call) ==
  /\ call.fn = "handleDelete" /\ call.pc = "mutation"
  /\ DeleteExpense(call.id)
  /\ IF Rejected(res')
     THEN /\ App' = [App EXCEPT !.error = Str(<<"Failed to delete expense">>),
                                !.isLoading = FALSE]
          /\ calls' = calls \ {call}
     ELSE /\ App' = [App EXCEPT !.isLoading = TRUE, !.error = Null]
          /\ calls' = (calls \ {call}) \cup {[call EXCEPT !.pc = "loadExpenses"]}
  /\ UNCHANGED <<ExpenseSummary, CategoryFilter>>

\* await loadExpenses() inside handleSubmit / handleDelete has settled: its
\* finally clears isLoading, then the handler calls loadSummary().
ReloadedExpenses(call) ==
  /\ call \in Handlers /\ call.pc = "loadExpenses"
  /\ GetExpenses(fetchExpensesQuery(Str(call.selectedCategory)))
  /\ App' = loadedExpenses(App, res')
  /\ calls' = (calls \ {call}) \cup {[call EXCEPT !.pc = "loadSummary"]}
  /\ UNCHANGED <<ExpenseSummary, CategoryFilter>>

\* await loadSummary() inside handleSubmit / handleDelete has settled; the
\* handler ends with its finally.
ReloadedSummary(call) ==
  /\ call \in Handlers /\ call.pc = "loadSummary"
  /\ GetSummary
  /\ App' = [loadedSummary(App, res') EXCEPT !.isLoading = FALSE]
  /\ ExpenseSummary' =
       IF Rejected(res') THEN ExpenseSummary
       ELSE [displayData |-> prepareDisplayData(App'.summary, ExpenseSummary.displayData)]
  /\ calls' = calls \ {call}
  /\ UNCHANGED CategoryFilter

\* handleEdit(expense): the Edit button of a row of the list
HandleEdit(expense) ==
  /\ ~App.isLoading
  /\ \E i \in 1..Len(App.expenses) : App.expenses[i] = expense
  /\ App' = [App EXCEPT !.editingExpense = expense]
  /\ UNCHANGED <<ExpenseSummary, CategoryFilter, calls>>
  /\ UNCHANGED backend

HandleCancelEdit ==
  /\ App.editingExpense # Null
  /\ App' = [App EXCEPT !.editingExpense = Null]
  /\ UNCHANGED <<ExpenseSummary, CategoryFilter, calls>>
  /\ UNCHANGED backend

\* The buttons of the CategoryFilter.
allCategories ==
  IF Len(CategoryFilter.categories) > 0 THEN <<All>> \o CategoryFilter.categories
  ELSE <<>>

\* handleCategoryChange(category): a button of the CategoryFilter, disabled
\* while isLoading.  A changed selectedCategory gives a new loadExpenses, so
\* the effect of App runs loadExpenses() and loadSummary() again.
HandleCategoryChange(category) ==
  /\ ~App.isLoading
  /\ ~CategoryFilter.categoriesLoading
  /\ \E i \in 1..Len(allCategories) : allCategories[i] = category
  /\ IF category = App.selectedCategory
     THEN /\ App' = [App EXCEPT !.editingExpense = Null]
          /\ UNCHANGED calls
     ELSE /\ App' = [App EXCEPT !.selectedCategory = category,
                                !.editingExpense = Null,
                                !.isLoading = TRUE, !.error = Null]
          /\ calls' = calls \cup {[fn |-> "loadExpenses", selectedCategory |-> category],
                                  [fn |-> "loadSummary"]}
  /\ UNCHANGED <<ExpenseSummary, CategoryFilter>>
  /\ UNCHANGED backend

\* The server driven by one App.
AppInit ==
  /\ ServerStart
  /\ workload = "app"
  /\ Mounted

AppNext ==
  \/ \E call \in calls : LoadExpenses(call)
  \/ \E call \in calls : LoadSummary(call)
  \/ \E call \in calls : LoadCategories(call)
  \/ \E form \in FormInputs : HandleSubmit(form)
  \/ \E call \in calls : SubmitSettled(call)
  \/ \E id \in IdInputs : HandleDelete(id)
  \/ \E call \in calls : DeleteSettled(call)
  \/ \E call \in calls : ReloadedExpenses(call)
  \/ \E call \in calls : ReloadedSummary(call)
  \/ \E i \in 1..Len(App.expenses) : HandleEdit(App.expenses[i])
  \/ HandleCancelEdit
  \/ \E i \in 1..Len(allCategories) : HandleCategoryChange(allCategories[i])

AppSpec == AppInit /\ [][AppNext]_vars

(***************************************************************************)
(* Vocabulary of the properties.                                           *)
(***************************************************************************)
PostExpenseOp == "POST /api/expenses"
PutExpenseOp == "PUT /api/expenses/:id"
DeleteExpenseOp == "DELETE /api/expenses/:id"
PostCategoryOp == "POST /api/categories"

AllQueries == UNION {QueryInputs(w) : w \in Workloads}

Ids(exps) == [i \in 1..Len(exps) |-> exps[i].id]
InStore(exps, id) == \E i \in 1..Len(exps) : exps[i].id = id
Stored(exps, id) == exps[CHOOSE i \in 1..Len(exps) : exps[i].id = id]

\* The mathematical sum of the amounts of exps (NaN when one of them is NaN).
AmountSum(exps) ==
  IF \E i \in 1..Len(exps) : exps[i].amount.k # "number" THEN NaN
  ELSE LET RECURSIVE upTo(_)
           upTo(i) == IF i = 0 THEN 0 ELSE upTo(i - 1) + exps[i].amount.n
       IN Num(upTo(Len(exps)))

\* The sum of the totals of the rows of a summary (NaN when a total is no
\* number; a NaN total is written null in the response).
TotalsSum(rows) ==
  IF \E i \in 1..Len(rows) : rows[i].total.k # "number" THEN NaN
  ELSE LET RECURSIVE upTo(_)
           upTo(i) == IF i = 0 THEN 0 ELSE upTo(i - 1) + rows[i].total.n
       IN Num(upTo(Len(rows)))

\* C1: in every reachable state summarize() returns a grandTotal equal to the
\* sum of amount over the expenses in the store, and the per-category totals
\* of the summary add up to that grandTotal.
C1_GrandTotalIsSum ==
  LET r == Summarize(expenses).body
  IN /\ r.grandTotal = json(AmountSum(expenses))
     /\ json(TotalsSum(r.data)) = r.grandTotal

\* C2: every successful create returns an id that no earlier successful
\* create returned, the ids of deleted expenses included.
C2_IdsNeverReused ==
  [][(req'.op = PostExpenseOp /\ res'.status = 201)
       => \A i \in 1..Len(created) : created[i] # res'.body.data.id]_vars

C2_Witness ==
  /\ req.op = PostExpenseOp
  /\ res.status = 201
  /\ deleted # {}
  /\ Len(created) = MaxIds

\* C3: list() without filter returns exactly the expenses created and not
\* yet deleted, each once, in the order of their creation; updates do not
\* change the order.
C3_ListInCreationOrder ==
  LET r == ListExpenses(expenses, Undefined)
      alive(id) == id \notin deleted
  IN /\ r.status = 200
     /\ Ids(r.body.data) = SelectSeq(created, alive)

C3_Witness ==
  /\ req.op = PutExpenseOp
  /\ res.status = 200
  /\ Len(expenses) = 2
  /\ expenses[1].id = req.params.id
  /\ deleted # {}

\* The expenses of exps whose category is a string equal to f ignoring case.
RECURSIVE MatchingSubseq(_, _)
MatchingSubseq(exps, f) ==
  IF exps = <<>> THEN <<>>
  ELSE LET e == Head(exps)
       IN (IF e.category.k = "string" /\ toLowerCase(e.category.s) = toLowerCase(f)
           THEN <<e>> ELSE <<>>) \o MatchingSubseq(Tail(exps), f)

\* C4: for every store state and every non-empty filter string f other than
\* "All", list(f) returns exactly the subsequence of list() whose category
\* equals f ignoring case; without filter, with the empty filter and with
\* "All" it returns every expense.
C4_FilterIsExactSubsequence ==
  \A q \in AllQueries :
    LET r == ListExpenses(expenses, q)
    IN /\ (q \in {Undefined, Str(<<>>), Str(All)}
             => r.status = 200 /\ r.body.data = expenses)
       /\ (q.k = "string" /\ q.s # <<>> /\ q.s # All
             => r.status = 200 /\ r.body.data = MatchingSubseq(expenses, q.s))

\* C5 as stated: a successful update sets every supplied field to the
\* supplied value (amount coerced to a number) and leaves every field that
\* is not supplied at its prior value.
C5_SuppliedFieldsAreSet ==
  [][(req'.op = PutExpenseOp /\ res'.status = 200)
       => LET b == req'.body
              old == Stored(expenses, req'.params.id)
              new == Stored(expenses', req'.params.id)
          IN /\ new.amount = (IF b.amount # Undefined THEN parseFloat(b.amount)
                              ELSE old.amount)
             /\ new.category = (IF b.category # Undefined THEN b.category
                                ELSE old.category)
             /\ new.date = (IF b.date # Undefined THEN b.date ELSE old.date)
             /\ new.description = (IF b.description # Undefined THEN b.description
                                   ELSE old.description)]_vars

\* The values JavaScript takes for false in a condition.
Falsy(v) == v \in {Undefined, Null, Str(<<>>), Num(0), False, NaN}

\* C5 amended: a successful update sets amount to the number parsed from the
\* supplied amount and description to the supplied description; it sets
\* category and date to the supplied value only when that value is not
\* empty (not falsy) and keeps the prior value otherwise; every field that
\* is not supplied keeps its prior value, so update(id, {}) changes nothing.
C5_TruthyFieldsAreSet ==
  [][(req'.op = PutExpenseOp /\ res'.status = 200)
       => LET b == req'.body
              old == Stored(expenses, req'.params.id)
              new == Stored(expenses', req'.params.id)
          IN /\ new.amount = (IF b.amount # Undefined THEN parseFloat(b.amount)
                              ELSE old.amount)
             /\ new.category = (IF Falsy(b.category) THEN old.category
                                ELSE b.category)
             /\ new.date = (IF Falsy(b.date) THEN old.date ELSE b.date)
             /\ new.description = (IF b.description # Undefined THEN b.description
                                   ELSE old.description)
             /\ res'.body.data = new
             /\ (b = Body(Undefined, Undefined, Undefined, Undefined) => new = old)]_vars

C5_Witness ==
  /\ req.op = PutExpenseOp
  /\ res.status = 200
  /\ req.body = Body(Undefined, Str(<<>>), Str(D2), Str(<<>>))
  /\ res.body.data.category = Str(Food)
  /\ res.body.data.date = Str(D2)

\* C6: after a successful delete(id) no list() result, filtered or not,
\* contains an expense with that id, whatever requests follow.
C6_DeletedNeverListed ==
  \A q \in AllQueries :
    LET r == ListExpenses(expenses, q)
    IN r.status = 200
         => \A i \in 1..Len(r.body.data) : r.body.data[i].id \notin deleted

C6_Witness ==
  /\ req.op = PostExpenseOp
  /\ res.status = 201
  /\ Len(expenses) = 2
  /\ Cardinality(deleted) = 1

\* C7: update(id, ...) and delete(id) fail with NotFoundError whenever no
\* expense in the store has that id, whether the id was never issued or its
\* expense was deleted; the second of two deletes of an id fails.
C7_UnknownIdNotFound ==
  [][(req'.op \in {PutExpenseOp, DeleteExpenseOp} /\ ~InStore(expenses, req'.params.id))
       => /\ res'.status = 404
          /\ res'.body.success = FALSE
          /\ res'.body.error = "Expense not found"
          /\ expenses' = expenses]_vars

C7_Witness ==
  /\ req.op = DeleteExpenseOp
  /\ res.status = 404
  /\ req.params.id \in deleted
  /\ expenses # <<>>

\* Missing, in the words of the claim: absent, null or empty.
Missing(v) == v \in {Undefined, Null, Str(<<>>)}

\* C8 as stated: create fails with ValidationError if any of amount,
\* category or date is missing (absent, null or empty) and succeeds whenever
\* all three are present.
C8_CreateFailsIffMissing ==
  [][req'.op = PostExpenseOp
       => LET b == req'.body
          IN IF Missing(b.amount) \/ Missing(b.category) \/ Missing(b.date)
             THEN res'.status = 400 /\ expenses' = expenses
             ELSE res'.status = 201]_vars

\* C8 amended: create fails with ValidationError if any of amount, category
\* or date is missing (absent, null or empty) or is the number 0 or false,
\* and succeeds in every other case.
C8_CreateFailsIffFalsy ==
  [][req'.op = PostExpenseOp
       => LET b == req'.body
          IN IF Falsy(b.amount) \/ Falsy(b.category) \/ Falsy(b.date)
             THEN /\ res'.status = 400
                  /\ res'.body.error = "Amount, category, and date are required"
                  /\ expenses' = expenses
             ELSE /\ res'.status = 201
                  /\ Len(expenses') = Len(expenses) + 1]_vars

C8_Witness ==
  /\ req.op = PostExpenseOp
  /\ req.body.amount = Num(0)
  /\ req.body.category = Str(Food)
  /\ req.body.date = Str(D1)
  /\ res.status = 400

\* C9: every expense in the store has an amount that is a finite number
\* strictly greater than zero.
C9_AmountsPositive ==
  \A i \in 1..Len(expenses) :
    expenses[i].amount.k = "number" /\ expenses[i].amount.n > 0

\* Two strings are equal ignoring case.
SameIgnoringCase(a, b) ==
  /\ Len(a) = Len(b)
  /\ \A i \in 1..Len(a) : LowerChar(a[i]) = LowerChar(b[i])

\* C10: category create(name) fails with ConflictError when the trimmed name
\* equals, ignoring case, a name in the registry; for any other non-blank
\* name it succeeds, returns the trimmed name, and the category list then
\* ends with that trimmed name.
C10_CategoryCreate ==
  [][(req'.op = PostCategoryOp /\ req'.body.name.k = "string"
        /\ trim(req'.body.name.s) # <<>>)
       => LET trimmed == trim(req'.body.name.s)
          IN IF \E i \in 1..Len(categories) : SameIgnoringCase(categories[i], trimmed)
             THEN /\ res'.status = 400
                  /\ res'.body.success = FALSE
                  /\ res'.body.error = "Category already exists"
                  /\ categories' = categories
             ELSE /\ res'.status = 201
                  /\ res'.body.data = trimmed
                  /\ categories' = Append(categories, trimmed)]_vars

C10_Witness ==
  /\ req.op = PostCategoryOp
  /\ req.body.name = Str(toLowerCase(Rent))
  /\ res.status = 400
  /\ res.body.error = "Category already exists"
  /\ categories = Append(SeedCategories, Rent)

\* C11: in every reachable state of the Category Registry no two entries are
\* equal when compared case-insensitively, whatever category creates were
\* issued from the seed set.
C11_RegistryCaseUnique ==
  \A i, j \in 1..Len(categories) :
    SameIgnoringCase(categories[i], categories[j]) => i = j

C11_Witness ==
  /\ Len(categories) = Len(SeedCategories) + 1
  /\ req.op = PostCategoryOp
  /\ res = CategoryConflict
  /\ req.body.name.s # categories[Len(categories)]
  /\ SameIgnoringCase(trim(req.body.name.s), categories[Len(categories)])

\* The expenses of exps whose stored category reads c.
OfCategory(exps, c) == SelectSeq(exps, LAMBDA e : toString(e.category) = c)

\* C12: in every reachable state each row of summarize() carries as its total
\* the sum of amount over exactly the expenses whose stored category is the
\* row's category, and no category has two rows; categories that differ only
\* in case are not merged.
C12_RowTotalIsCategorySum ==
  LET rows == Summarize(expenses).body.data
  IN /\ \A i \in 1..Len(rows) :
          rows[i].total = json(AmountSum(OfCategory(expenses, rows[i].category)))
     /\ \A i, j \in 1..Len(rows) : rows[i].category = rows[j].category => i = j

\* C13: in every reachable state summarize() has a row for a category exactly
\* when at least one expense in the store carries that category (so a row is
\* gone once the last expense of its category is updated away or deleted),
\* and on an empty store the summary is empty with grandTotal 0.
C13_RowIffCategoryStored ==
  LET summary == Summarize(expenses).body
  IN /\ {summary.data[i].category : i \in 1..Len(summary.data)}
          = {toString(expenses[i].category) : i \in 1..Len(expenses)}
     /\ expenses = <<>> => summary.data = <<>> /\ summary.grandTotal = Num(0)

\* The position in exps of the first expense whose stored category reads c.
FirstEncounter(exps, c) ==
  CHOOSE i \in 1..Len(exps) :
    /\ toString(exps[i].category) = c
    /\ \A j \in 1..(i - 1) : toString(exps[j].category) # c

\* C14: in every reachable state, whatever the category strings in the store
\* (strings that look like non-negative integers included), the rows of
\* summarize() appear in the order in which their categories are first
\* encountered when scanning the collection.
C14_RowsInFirstEncounterOrder ==
  LET rows == Summarize(expenses).body.data
  IN \A i, j \in 1..Len(rows) :
       i < j => FirstEncounter(expenses, rows[i].category)
                  < FirstEncounter(expenses, rows[j].category)

\* C15: a successful update(id, partialFields) never changes the id of the
\* record (also when partialFields itself carries an id), never changes the
\* position of the record in the store, and leaves every other expense and
\* the Category Registry unchanged.
C15_UpdateFrame ==
  [][(req'.op = PutExpenseOp /\ res'.status = 200)
       => /\ res'.body.data.id = req'.params.id
          /\ Ids(expenses') = Ids(expenses)
          /\ \A i \in 1..Len(expenses) :
               expenses[i].id # req'.params.id => expenses'[i] = expenses[i]
          /\ categories' = categories]_vars

C15_Witness ==
  /\ req.op = PutExpenseOp
  /\ res.status = 200
  /\ req.body.id.k = "number"
  /\ req.body.id.n # req.params.id
  /\ Len(expenses) = 2
  /\ expenses[1].id = req.params.id
  /\ expenses[1].category = Str(Food)
  /\ expenses[2].category # Str(Food)

\* C16: a successful delete(id) returns the record that was stored under id,
\* removes exactly that record from the store, and leaves the remaining
\* expenses unchanged in content and in relative order.
C16_DeleteFrame ==
  [][(req'.op = DeleteExpenseOp /\ res'.status = 200)
       => /\ InStore(expenses, req'.params.id)
          /\ res'.body.data = Stored(expenses, req'.params.id)
          /\ Len(expenses') = Len(expenses) - 1
          /\ expenses' = SelectSeq(expenses, LAMBDA e : e.id # req'.params.id)
          /\ categories' = categories]_vars

C16_Witness ==
  /\ req.op = DeleteExpenseOp
  /\ res.status = 200
  /\ Len(expenses) = 1
  /\ res.body.data.id < expenses[1].id

\* C17: a successful create increases the number of expenses by exactly one,
\* places the new record last, leaves the expenses that were there unchanged,
\* and returns a record whose category and date are the supplied ones, whose
\* amount is the numeric coercion (parseFloat) of the supplied amount and
\* whose description is the supplied description, or the empty string when
\* none was supplied.
C17_CreateAppends ==
  [][(req'.op = PostExpenseOp /\ res'.status = 201)
       => LET b == req'.body
              e == res'.body.data
          IN /\ Len(expenses') = Len(expenses) + 1
             /\ expenses'[Len(expenses')] = e
             /\ SubSeq(expenses', 1, Len(expenses)) = expenses
             /\ e.category = b.category
             /\ e.date = b.date
             /\ e.amount = parseFloat(b.amount)
             /\ e.description = IF b.description = Undefined THEN Str(<<>>)
                                ELSE b.description]_vars

C17_Witness ==
  /\ req.op = PostExpenseOp
  /\ res.status = 201
  /\ Len(expenses) = 2
  /\ req.body.amount = Str(<<"-", "3", "x">>)
  /\ req.body.description = Undefined
  /\ expenses[2] = res.body.data
  /\ expenses[2].description = Str(<<>>)

\* A request that meets what its operation asks of it in the store exps and
\* the registry cats: a list with no filter or a text as filter, a summary, a
\* category list, a create with amount, category and date present, an update
\* or delete of a stored id, a category create with a non-blank name that is
\* not in the registry.
ValidRequest(r, exps, cats) ==
  CASE r.op = "GET /api/expenses" ->
         r.query.category = Undefined \/ IsString(r.query.category)
    [] r.op = PostExpenseOp ->
         Truthy(r.body.amount) /\ Truthy(r.body.category) /\ Truthy(r.body.date)
    [] r.op \in {PutExpenseOp, DeleteExpenseOp} -> InStore(exps, r.params.id)
    [] r.op = PostCategoryOp ->
         /\ IsString(r.body.name)
         /\ trim(r.body.name.s) # <<>>
         /\ ~\E i \in 1..Len(cats) : SameIgnoringCase(cats[i], trim(r.body.name.s))
    [] OTHER -> TRUE

Failed(response) == response.status >= 400

\* C18: every operation that reports a failure (validation, not found,
\* conflict or internal failure) leaves the expense collection and the
\* Category Registry exactly as they were before the request, and every valid
\* operation issued after a reported failure succeeds.
C18_FailureLeavesStoreUsable ==
  [][/\ Failed(res') => expenses' = expenses /\ categories' = categories
     /\ (Failed(res) /\ ValidRequest(req', expenses, categories)) => ~Failed(res')]_vars

\* C19: the three error kinds are reported with pairwise distinct status
\* signals: the status of a ConflictError response (duplicate category)
\* differs from the status of the ValidationError responses and from the
\* status of the NotFoundError response, and those two differ as well.
C19_DistinctErrorStatuses ==
  /\ NotFound.status \notin {ExpenseFieldsRequired.status, CategoryNameRequired.status}
  /\ (req.op = PostCategoryOp /\ res = CategoryConflict)
       => res.status \notin {ExpenseFieldsRequired.status,
                             CategoryNameRequired.status, NotFound.status}

\* C20: list(categoryFilter) never reports an error: in every reachable state
\* of the store, whatever category values the requests stored, and for every
\* filter value, it answers with success, and with the empty sequence when
\* the store is empty.
C20_ListNeverErrors ==
  \A category \in AllQueries :
    LET response == ListExpenses(expenses, category)
    IN /\ response.status = 200
       /\ response.body.success
       /\ expenses = <<>> => response.body.data = <<>>

\* C21: every expense is created with a category that, at the moment of its
\* creation, equals ignoring case some entry of the Category Registry; a
\* create whose category matches no registry entry does not add an expense.
C21_CreatedCategoryInRegistry ==
  [][(req'.op = PostExpenseOp /\ res'.status = 201)
       => /\ IsString(req'.body.category)
          /\ \E i \in 1..Len(categories) :
               SameIgnoringCase(categories[i], req'.body.category.s)]_vars

\* A name that is text made of white space only (the empty text included).
Blank(name) == IsString(name) /\ \A i \in 1..Len(name.s) : name.s[i] \in WhiteSpace

\* C22: category create(name) fails with ValidationError when name is absent,
\* empty or made of white space only, and the registry is then not changed.
C22_BlankNameRejected ==
  [][(req'.op = PostCategoryOp
        /\ (req'.body.name \in {Undefined, Null} \/ Blank(req'.body.name)))
       => /\ res'.status = 400
          /\ res'.body.success = FALSE
          /\ res'.body.error = "Category name is required"
          /\ categories' = categories]_vars

C22_Witness ==
  /\ req.op = PostCategoryOp
  /\ Blank(req.body.name)
  /\ req.body.name.s # <<>>
  /\ res = CategoryNameRequired
  /\ Len(categories) = Len(SeedCategories) + 1

IsPrefix(s, t) == Len(s) <= Len(t) /\ SubSeq(t, 1, Len(s)) = s

\* C23: the Category Registry is append-only: the category list() result
\* always starts with the seed Food, Transport, Entertainment, Utilities,
\* Healthcare, Shopping, and every step (expense operations included) leaves
\* the earlier registry as a prefix of the later one; list() returns the
\* registry in its stored order.
C23_RegistryAppendOnly ==
  [][/\ IsPrefix(<<Food, Transport, Entertainment, Utilities, Healthcare, Shopping>>,
                 categories')
     /\ IsPrefix(categories, categories')
     /\ req'.op = "GET /api/categories" => res'.body.data = categories']_vars

C23_Witness ==
  /\ req.op = "GET /api/categories"
  /\ res.status = 200
  /\ res.body.data = categories
  /\ Len(categories) = Len(SeedCategories) + 1
  /\ IsPrefix(SeedCategories, categories)

\* C28: in every state reached by create and update requests every stored
\* expense has a non-empty category and a non-empty date; an update that
\* supplies an empty category or an empty date keeps the prior value.
C28_CategoryAndDateNonEmpty ==
  [][/\ \A i \in 1..Len(expenses') :
          ~Falsy(expenses'[i].category) /\ ~Falsy(expenses'[i].date)
     /\ (req'.op = PutExpenseOp /\ res'.status = 200)
          => LET old == Stored(expenses, req'.params.id)
                 new == Stored(expenses', req'.params.id)
             IN /\ req'.body.category = Str(<<>>) => new.category = old.category
                /\ req'.body.date = Str(<<>>) => new.date = old.date]_vars

C28_Witness ==
  /\ req.op = PutExpenseOp
  /\ res.status = 200
  /\ req.body.category = Str(<<>>)
  /\ req.body.date = Str(<<>>)
  /\ res.body.data.category = Str(Food)
  /\ res.body.data.date = Str(D1)
  /\ expenses[1] = res.body.data

\* C24: at every moment after the CategoryFilter's initial load has finished,
\* its category buttons (other than "All") are exactly the distinct
\* categories carried by the expenses currently in the store, also after
\* expenses were created, updated or deleted through the App.
C24_FilterButtonsAreStoredCategories ==
  ~CategoryFilter.categoriesLoading
    => {CategoryFilter.categories[i] : i \in 1..Len(CategoryFilter.categories)}
         = {toString(expenses[i].category) : i \in 1..Len(expenses)}

\* C25: the category breakdown displayed by ExpenseSummary (displayData)
\* always corresponds to its current summary prop: it has one entry per row
\* of the summary, with that row's category and total, and it is empty when
\* the summary is empty, so that no row of an earlier summary stays displayed.
C25_DisplayDataIsSummary ==
  /\ Len(ExpenseSummary.displayData) = Len(App.summary)
  /\ \A i \in 1..Len(App.summary) :
       /\ ExpenseSummary.displayData[i].category = App.summary[i].category
       /\ ExpenseSummary.displayData[i].total = App.summary[i].total

\* C26: whenever editingExpense is non-null it refers to an expense that
\* still exists in the store of the server, and a submit in edit mode never
\* targets an id that is not there, after any sequence of edit, delete,
\* submit, cancel and category-change actions.
C26_EditingExpenseExists ==
  [][/\ App'.editingExpense # Null => InStore(expenses', App'.editingExpense.id)
     /\ req'.op = PutExpenseOp => res'.status # 404]_vars

\* C27: isLoading is true during the whole time a handleSubmit or
\* handleDelete call has an outstanding request (the mutation, the expense
\* reload or the summary reload), so that never two such calls are in flight.
C27_LoadingWhileHandlerInFlight ==
  /\ Handlers # {} => App.isLoading
  /\ Cardinality(Handlers) <= 1

====
